---- MODULE Spec2Model ----
(***************************************************************************)
(* Model of scripts/set_core_version.py (deltachat-core-rust): the release *)
(* version synchronisation tool.                                           *)
(*                                                                         *)
(* Text is modelled at character level: a string is a sequence of          *)
(* one-character strings, a text file is the sequence of lines Python's    *)
(* file iteration yields (each line keeps its "\n", the last line may lack *)
(* it).  A JSON file is modelled by its layout and its members in file     *)
(* order; a file that does not parse as JSON is a text file.               *)
(***************************************************************************)
EXTENDS Naturals, Sequences, FiniteSets, TLC

-----------------------------------------------------------------------------
(* Strings *)

NL == "\n"
QUOTE == "\""

\* The characters Python's \S does not match.
Whitespace == {" ", "\t", "\n", "\r", "\f"}

\* str.count for a one-character needle.
RECURSIVE CountChar(_, _)
CountChar(s, c) ==
    IF s = <<>> THEN 0
    ELSE (IF Head(s) = c THEN 1 ELSE 0) + CountChar(Tail(s), c)

\* str.startswith
StartsWith(s, p) == Len(s) >= Len(p) /\ SubSeq(s, 1, Len(p)) = p

\* sub in s
Contains(s, sub) ==
    \E i \in 1..(Len(s) + 1) :
        i + Len(sub) - 1 <= Len(s) /\ SubSeq(s, i, i + Len(sub) - 1) = sub

ALPHA == <<"a", "l", "p", "h", "a">>

\* ASCII codes of the characters that occur in JSON keys of the model.
Ord(c) ==
    CASE c = "a" -> 97 [] c = "e" -> 101 [] c = "i" -> 105 [] c = "m" -> 109
      [] c = "n" -> 110 [] c = "o" -> 111 [] c = "r" -> 114 [] c = "s" -> 115
      [] c = "v" -> 118 [] OTHER -> 0

\* Python's str <: lexicographic by code point, a proper prefix is smaller.
RECURSIVE StrLess(_, _)
StrLess(a, b) ==
    IF b = <<>> THEN FALSE
    ELSE IF a = <<>> THEN TRUE
    ELSE IF Head(a) = Head(b) THEN StrLess(Tail(a), Tail(b))
    ELSE Ord(Head(a)) < Ord(Head(b))

-----------------------------------------------------------------------------
(* Files *)

Missing == [t |-> "missing"]
Text(ls) == [t |-> "text", lines |-> ls]
Json(lay, ms) == [t |-> "json", layout |-> lay, members |-> ms]

\* pathlib.Path(relpath).exists()
exists(file) == file.t # "missing"

-----------------------------------------------------------------------------
(* Key-value manifests: rex, regex_matches, read_toml_version,             *)
(* replace_toml_version                                                    *)

\* The literal prefix of rex: version = "
rexPrefix == <<"v", "e", "r", "s", "i", "o", "n", " ", "=", " ", QUOTE>>

\* The positions, after the prefix, of a closing quote that ends a run of one
\* or more non-whitespace characters starting right after the prefix.
rexEnds(line) ==
    IF ~StartsWith(line, rexPrefix) THEN {}
    ELSE LET rest == SubSeq(line, Len(rexPrefix) + 1, Len(line))
         IN  {j \in 2..Len(rest) :
                 /\ rest[j] = QUOTE
                 /\ \A i \in 1..(j - 1) : rest[i] \notin Whitespace}

\* rex.match(line) is not None: the pattern is anchored at the start of the
\* line only.
rexMatch(line) == rexEnds(line) # {}

\* m.group(1): \S+ is greedy, so the group runs to the last closing quote.
rexGroup(line) ==
    LET rest == SubSeq(line, Len(rexPrefix) + 1, Len(line))
        j == CHOOSE k \in rexEnds(line) : \A l \in rexEnds(line) : l <= k
    IN  SubSeq(rest, 1, j - 1)

\* A search that returns the last matching line.
regex_matches_Last(ls) ==
    IF \E i \in 1..Len(ls) : rexMatch(ls[i])
    THEN CHOOSE i \in 1..Len(ls) :
             rexMatch(ls[i]) /\ \A k \in (i + 1)..Len(ls) : ~rexMatch(ls[k])
    ELSE 0

\* regex_matches: the index of the first matching line, 0 for None.
regex_matches(ls) ==
    IF \E i \in 1..Len(ls) : rexMatch(ls[i])
    THEN CHOOSE i \in 1..Len(ls) :
             rexMatch(ls[i]) /\ \A k \in 1..(i - 1) : ~rexMatch(ls[k])
    ELSE 0

\* read_toml_version.  AssertionError of `assert p.exists()` is reported as
\* ManifestNotFound, the ValueError as VersionNotFound.
read_toml_version(file) ==
    IF ~exists(file) THEN [err |-> "ManifestNotFound", v |-> <<>>]
    ELSE IF regex_matches(file.lines) = 0
         THEN [err |-> "VersionNotFound", v |-> <<>>]
         ELSE [err |-> "none", v |-> rexGroup(file.lines[regex_matches(file.lines)])]

\* f'version = "{newversion}"\n'
versionLine(newversion) == rexPrefix \o newversion \o <<QUOTE, NL>>

\* A writer that inserts the new version in front of the old one.
tomlOutLine_Insert(line, newversion) ==
    IF rexMatch(line)
    THEN rexPrefix \o newversion \o SubSeq(line, Len(rexPrefix) + 1, Len(line))
    ELSE line

\* A writer that copies every line.
tomlOutLine_Keep(line, newversion) == line

\* The body of the loop of replace_toml_version: what is written to the
\* temporary file for one input line.
tomlOutLine(line, newversion) ==
    IF rexMatch(line) THEN versionLine(newversion) ELSE line

\* replace_toml_version: the lines of the file after the rename.
replace_toml_version(ls, newversion) ==
    [i \in 1..Len(ls) |-> tomlOutLine(ls[i], newversion)]

-----------------------------------------------------------------------------
(* Structured-document manifests: json.loads, json.dump, read_json_version, *)
(* update_package_json                                                      *)

VERSION == <<"v", "e", "r", "s", "i", "o", "n">>

Keys(ms) == {ms[i][1] : i \in 1..Len(ms)}

\* dict lookup after json.loads: for a repeated key the last value wins.
Lookup(ms, k) ==
    LET i == CHOOSE j \in 1..Len(ms) :
                 ms[j][1] = k /\ \A l \in (j + 1)..Len(ms) : ms[l][1] # k
    IN  ms[i][2]

\* json.loads: a dict keeps each key at the place of its first occurrence.
RECURSIVE loadsFrom(_, _, _)
loadsFrom(ms, i, acc) ==
    IF i > Len(ms) THEN acc
    ELSE IF ms[i][1] \in Keys(acc) THEN loadsFrom(ms, i + 1, acc)
    ELSE loadsFrom(ms, i + 1, Append(acc, <<ms[i][1], Lookup(ms, ms[i][1])>>))

loads(ms) == loadsFrom(ms, 1, <<>>)

\* json_data["version"] = newversion: an existing key keeps its place, a new
\* key is appended.
setVersion(d, newversion) ==
    IF VERSION \in Keys(d)
    THEN [i \in 1..Len(d) |-> IF d[i][1] = VERSION THEN <<VERSION, newversion>> ELSE d[i]]
    ELSE Append(d, <<VERSION, newversion>>)

\* A dump that keeps the order of the dict.
sortKeys_Keep(d) == d

\* sort_keys=True: the members in increasing key order.
RECURSIVE sortKeys(_)
sortKeys(d) ==
    IF d = <<>> THEN <<>>
    ELSE LET m == CHOOSE i \in 1..Len(d) :
                      \A j \in 1..Len(d) : j = i \/ StrLess(d[i][1], d[j][1])
         IN  <<d[m]>> \o sortKeys([i \in 1..(Len(d) - 1) |-> IF i < m THEN d[i] ELSE d[i + 1]])

\* json.dump(json_data, f, sort_keys=True, indent=2); f.write("\n")
dump(d) == Json("indent2", sortKeys(d))

\* read_json_version.  A file that does not parse is MalformedManifest, a
\* document without the key raises KeyError (VersionNotFound).
read_json_version(file) ==
    IF ~exists(file) THEN [err |-> "ManifestNotFound", v |-> <<>>]
    ELSE IF file.t # "json" THEN [err |-> "MalformedManifest", v |-> <<>>]
    ELSE IF VERSION \notin Keys(file.members) THEN [err |-> "VersionNotFound", v |-> <<>>]
    ELSE [err |-> "none", v |-> Lookup(file.members, VERSION)]

\* update_package_json: the file after the call, for a file that parses.
update_package_json(file, newversion) ==
    dump(setVersion(loads(file.members), newversion))

-----------------------------------------------------------------------------
(* main: configuration *)

toml_list ==
    << "Cargo.toml", "deltachat-ffi/Cargo.toml", "deltachat-jsonrpc/Cargo.toml",
       "deltachat-rpc-server/Cargo.toml", "deltachat-repl/Cargo.toml",
       "python/pyproject.toml", "deltachat-rpc-client/pyproject.toml" >>

json_list ==
    << "package.json", "deltachat-jsonrpc/typescript/package.json",
       "deltachat-rpc-server/npm-package/package.json" >>

CORE_TOML == "Cargo.toml"
FFI_TOML == "deltachat-ffi/Cargo.toml"
CHANGELOG == "CHANGELOG.md"
RELEASE_DATE == "release-date.in"

Range(s) == {s[i] : i \in 1..Len(s)}
TomlPaths == Range(toml_list)
JsonPaths == Range(json_list)
Manifests == TomlPaths \cup JsonPaths
Paths == Manifests \cup {CHANGELOG, RELEASE_DATE}

\* f"## [{newversion}] - {today}\n"
changelogEntry(version, date) ==
    <<"#", "#", " ", "[">> \o version \o <<"]", " ", "-", " ">> \o date \o <<NL>>

\* A check that accepts an entry for the version whatever its date.
changelogFound_AnyDate(file, version, date) ==
    \E i \in 1..Len(file.lines) :
        StartsWith(file.lines[i], <<"#", "#", " ", "[">> \o version \o <<"]", " ", "-", " ">>)

\* Lines 105-108: whether some line of the changelog equals the entry line.
changelogFound(file, version, date) ==
    \E i \in 1..Len(file.lines) : file.lines[i] = changelogEntry(version, date)

-----------------------------------------------------------------------------
(* State *)

VARIABLES
    fs,          \* the working directory: path -> file
    fs0,         \* fs at the start (history)
    argv,        \* the command line: <<>> or <<newversion>>
    clock,       \* the date datetime.date.today() reports
    newversion,  \* main: opts.newversion
    core_toml,   \* main: version read from Cargo.toml
    ffi_toml,    \* main: version read from deltachat-ffi/Cargo.toml
    today,       \* main: today
    idx,         \* position in the loop over toml_list / json_list / lines
    pc,          \* the statement to run next
    err,         \* how the process ended, "none" while it runs
    io,          \* the reads, writes, prints and external calls so far (history)
    relpath,     \* a writer called on its own: its relpath
    json_data,   \* update_package_json: json_data
    hist,        \* a writer called on its own: version and result of each call (history)
    catalog,     \* cleanup: what the package index serves, index by index
    now,         \* cleanup: the day datetime.datetime.now() reports
    clear_index, \* cleanup run: clear_index
    proj         \* cleanup run: position in the loop over projectnames

vars == <<fs, fs0, argv, clock, newversion, core_toml, ffi_toml, today, idx, pc, err, io,
          relpath, json_data, hist, catalog, now, clear_index, proj>>

\* The state of the cleanup job.
devpi == <<catalog, now, clear_index, proj>>

\* What no step of main changes.
env == <<fs0, argv, clock, relpath, json_data, hist, devpi>>

locals == <<newversion, core_toml, ffi_toml, today, idx>>

Fail(e) == pc' = "failed" /\ err' = e

\* An entry of io: an operation, the path or command it acts on, and its detail.
Ev(op, target, detail) == <<op, target, detail>>

-----------------------------------------------------------------------------
(* main *)

\* Lines 83-84 and 94: the argument parses.
ParseArgs ==
    /\ pc = "parse"
    /\ Len(argv) = 1
    /\ newversion' = argv[1]
    /\ pc' = "format"
    /\ UNCHANGED <<fs, env, core_toml, ffi_toml, today, idx, err, io>>

\* The version every configured manifest reports, in the order of lines 87-90.
currentVersions ==
    [i \in 1..(Len(toml_list) + Len(json_list)) |->
        IF i <= Len(toml_list)
        THEN read_toml_version(fs[toml_list[i]])
        ELSE read_json_version(fs[json_list[i - Len(toml_list)]])]

manifestAt(i) ==
    IF i <= Len(toml_list) THEN toml_list[i] ELSE json_list[i - Len(toml_list)]

\* A listing of the key-value manifests only.
Usage_TomlOnly ==
    /\ pc = "parse"
    /\ Len(argv) # 1
    /\ LET n == Len(toml_list)
           bad == {i \in 1..n : currentVersions[i].err # "none"}
           stop == IF bad = {} THEN n + 1
                   ELSE CHOOSE i \in bad : \A j \in bad : i <= j
       IN  /\ io' = io \o [i \in 1..(stop - 1) |->
                            Ev("print", manifestAt(i), currentVersions[i].v)]
           /\ Fail(IF bad = {} THEN "Usage" ELSE currentVersions[stop].err)
    /\ UNCHANGED <<fs, env, locals>>

\* Lines 85-92: no argument.  Every manifest's version is printed, then the
\* process exits with the usage message; a manifest that cannot be read ends
\* the listing with its exception.
Usage ==
    /\ pc = "parse"
    /\ Len(argv) # 1
    /\ LET n == Len(toml_list) + Len(json_list)
           bad == {i \in 1..n : currentVersions[i].err # "none"}
           stop == IF bad = {} THEN n + 1
                   ELSE CHOOSE i \in bad : \A j \in bad : i <= j
       IN  /\ io' = io \o [i \in 1..(stop - 1) |->
                            Ev("print", manifestAt(i), currentVersions[i].v)]
           /\ Fail(IF bad = {} THEN "Usage" ELSE currentVersions[stop].err)
    /\ UNCHANGED <<fs, env, locals>>

\* A format check that asks for one dot only.
CheckFormat_OneDot ==
    /\ pc = "format"
    /\ IF CountChar(newversion, ".") < 1
       THEN Fail("InvalidVersionFormat")
       ELSE pc' = "core" /\ err' = err
    /\ UNCHANGED <<fs, env, locals, io>>

\* A format check made after the primary manifests were read.
CheckFormat_ReadsFirst ==
    /\ pc = "format"
    /\ io' = io \o <<Ev("read", CORE_TOML, <<>>), Ev("read", FFI_TOML, <<>>)>>
    /\ IF CountChar(newversion, ".") < 2
       THEN Fail("InvalidVersionFormat")
       ELSE pc' = "core" /\ err' = err
    /\ UNCHANGED <<fs, env, locals>>

\* Lines 95-96.
CheckFormat ==
    /\ pc = "format"
    /\ IF CountChar(newversion, ".") < 2
       THEN Fail("InvalidVersionFormat")
       ELSE pc' = "core" /\ err' = err
    /\ UNCHANGED <<fs, env, locals, io>>

\* Line 98.
ReadCore ==
    /\ pc = "core"
    /\ LET r == read_toml_version(fs[CORE_TOML])
       IN  /\ io' = Append(io, Ev("read", CORE_TOML, <<>>))
           /\ IF r.err # "none"
              THEN Fail(r.err) /\ core_toml' = core_toml
              ELSE pc' = "ffi" /\ err' = err /\ core_toml' = r.v
    /\ UNCHANGED <<fs, env, newversion, ffi_toml, today, idx>>

\* Line 99.
ReadFfi ==
    /\ pc = "ffi"
    /\ LET r == read_toml_version(fs[FFI_TOML])
       IN  /\ io' = Append(io, Ev("read", FFI_TOML, <<>>))
           /\ IF r.err # "none"
              THEN Fail(r.err) /\ ffi_toml' = ffi_toml
              ELSE pc' = "same" /\ err' = err /\ ffi_toml' = r.v
    /\ UNCHANGED <<fs, env, newversion, core_toml, today, idx>>

\* A run that does not compare the primary versions.
AssertSame_NoCheck ==
    /\ pc = "same"
    /\ pc' = "changelog"
    /\ UNCHANGED <<fs, env, locals, io, err>>

\* Line 100.
AssertSame ==
    /\ pc = "same"
    /\ IF core_toml = ffi_toml
       THEN pc' = "changelog" /\ err' = err
       ELSE Fail("VersionMismatch")
    /\ UNCHANGED <<fs, env, locals, io>>

\* A run that writes the marker before it validates the changelog.
CheckChangelog_MarkerFirst ==
    /\ pc = "changelog"
    /\ today' = clock
    /\ fs' = [fs EXCEPT ![RELEASE_DATE] = Text(<<clock>>)]
    /\ IF Contains(newversion, ALPHA)
       THEN /\ pc' = "toml" /\ idx' = 1 /\ err' = err
            /\ io' = Append(io, Ev("write", RELEASE_DATE, <<>>))
       ELSE IF ~exists(fs[CHANGELOG])
       THEN Fail("FileNotFoundError") /\ idx' = idx
               /\ io' = Append(io, Ev("write", RELEASE_DATE, <<>>))
       ELSE /\ io' = io \o <<Ev("write", RELEASE_DATE, <<>>), Ev("read", CHANGELOG, <<>>)>>
            /\ IF changelogFound(fs[CHANGELOG], newversion, clock)
               THEN pc' = "toml" /\ idx' = 1 /\ err' = err
               ELSE Fail("MissingChangelogEntry") /\ idx' = idx
    /\ UNCHANGED <<env, newversion, core_toml, ffi_toml>>

\* A changelog check without the exemption of alpha versions.
CheckChangelog_NoExemption ==
    /\ pc = "changelog"
    /\ today' = clock
    /\ IF ~exists(fs[CHANGELOG])
       THEN Fail("FileNotFoundError") /\ UNCHANGED <<idx, io>>
       ELSE /\ io' = Append(io, Ev("read", CHANGELOG, <<>>))
            /\ IF changelogFound(fs[CHANGELOG], newversion, clock)
               THEN pc' = "toml" /\ idx' = 1 /\ err' = err
               ELSE Fail("MissingChangelogEntry") /\ idx' = idx
    /\ UNCHANGED <<fs, env, newversion, core_toml, ffi_toml>>

\* Lines 102-112.  Path.open raises FileNotFoundError when there is no
\* changelog.
CheckChangelog ==
    /\ pc = "changelog"
    /\ today' = clock
    /\ IF Contains(newversion, ALPHA)
       THEN /\ pc' = "toml" /\ idx' = 1 /\ err' = err
            /\ io' = io
       ELSE IF ~exists(fs[CHANGELOG])
       THEN Fail("FileNotFoundError") /\ UNCHANGED <<idx, io>>
       ELSE /\ io' = Append(io, Ev("read", CHANGELOG, <<>>))
            /\ IF changelogFound(fs[CHANGELOG], newversion, clock)
               THEN pc' = "toml" /\ idx' = 1 /\ err' = err
               ELSE Fail("MissingChangelogEntry") /\ idx' = idx
    /\ UNCHANGED <<fs, env, newversion, core_toml, ffi_toml>>

\* A loop that passes over a manifest that does not exist.
ReplaceToml_SkipMissing ==
    /\ pc = "toml"
    /\ LET p == toml_list[idx]
       IN  /\ IF ~exists(fs[p])
              THEN UNCHANGED <<fs, io>>
              ELSE /\ fs' = [fs EXCEPT ![p] = Text(replace_toml_version(fs[p].lines, newversion))]
                   /\ io' = Append(io, Ev("write", p, <<>>))
           /\ err' = err
           /\ IF idx < Len(toml_list)
              THEN idx' = idx + 1 /\ pc' = pc
              ELSE idx' = 1 /\ pc' = "json"
    /\ UNCHANGED <<env, newversion, core_toml, ffi_toml, today>>

\* Lines 114-115 with 31-43: one iteration of the loop over toml_list.  The
\* temporary file is created and renamed away within the call.
ReplaceToml ==
    /\ pc = "toml"
    /\ LET p == toml_list[idx]
       IN  IF ~exists(fs[p])
           THEN Fail("ManifestNotFound") /\ UNCHANGED <<fs, idx, io>>
           ELSE /\ fs' = [fs EXCEPT ![p] = Text(replace_toml_version(fs[p].lines, newversion))]
                /\ io' = Append(io, Ev("write", p, <<>>))
                /\ err' = err
                /\ IF idx < Len(toml_list)
                   THEN idx' = idx + 1 /\ pc' = pc
                   ELSE idx' = 1 /\ pc' = "json"
    /\ UNCHANGED <<env, newversion, core_toml, ffi_toml, today>>

\* Lines 117-118 with 54-62: one iteration of the loop over json_list.
UpdateJson ==
    /\ pc = "json"
    /\ LET p == json_list[idx]
       IN  IF ~exists(fs[p])
           THEN Fail("ManifestNotFound") /\ UNCHANGED <<fs, idx, io>>
           ELSE IF fs[p].t # "json"
           THEN Fail("MalformedManifest") /\ UNCHANGED <<fs, idx, io>>
           ELSE /\ fs' = [fs EXCEPT ![p] = update_package_json(fs[p], newversion)]
                /\ io' = Append(io, Ev("write", p, <<>>))
                /\ err' = err
                /\ IF idx < Len(json_list)
                   THEN idx' = idx + 1 /\ pc' = pc
                   ELSE idx' = 1 /\ pc' = "marker"
    /\ UNCHANGED <<env, newversion, core_toml, ffi_toml, today>>

\* Lines 120-121: the date, without a line terminator.
WriteMarker ==
    /\ pc = "marker"
    /\ fs' = [fs EXCEPT ![RELEASE_DATE] = Text(<<today>>)]
    /\ io' = Append(io, Ev("write", RELEASE_DATE, <<>>))
    /\ pc' = "cargo"
    /\ UNCHANGED <<env, locals, err>>

\* What subprocess.call can do: return the exit status (0 or not), or raise
\* FileNotFoundError when the program is not installed.
CallOutcomes == {"zero", "nonzero", "notfound"}

\* Lines 123-124.
CargoCheck ==
    /\ pc = "cargo"
    /\ \E o \in CallOutcomes :
          /\ io' = Append(io, Ev("call", "cargo check", <<o>>))
          /\ IF o = "notfound" THEN Fail("FileNotFoundError")
             ELSE pc' = "git" /\ err' = err
    /\ UNCHANGED <<fs, env, locals>>

\* Lines 126-127.
GitAdd ==
    /\ pc = "git"
    /\ \E o \in CallOutcomes :
          /\ io' = Append(io, Ev("call", "git add -u", <<o>>))
          /\ IF o = "notfound" THEN Fail("FileNotFoundError")
             ELSE pc' = "guide" /\ err' = err
    /\ UNCHANGED <<fs, env, locals>>

\* Lines 130-138.
Guidance ==
    /\ pc = "guide"
    /\ io' = Append(io, Ev("print", "guidance", newversion))
    /\ pc' = "done"
    /\ UNCHANGED <<fs, env, locals, err>>

Next ==
    \/ ParseArgs \/ Usage \/ CheckFormat \/ ReadCore \/ ReadFfi \/ AssertSame
    \/ CheckChangelog \/ ReplaceToml \/ UpdateJson \/ WriteMarker
    \/ CargoCheck \/ GitAdd \/ Guidance

-----------------------------------------------------------------------------
(* Inputs *)

MaxChangelogLines == 2
MaxDeviants == 1

V100 == <<"1", ".", "0", ".", "0">>
V110 == <<"1", ".", "1", ".", "0">>
V120 == <<"1", ".", "2", ".", "0">>
V12 == <<"1", ".", "2">>
VALPHA == <<"2", ".", "0", ".", "0", "-", "a", "l", "p", "h", "a", "1">>
VALPHA1 == <<"2", ".", "0", "-", "a", "l", "p", "h", "a">>

\* The command lines: no argument, or one version.
Args == {<<>>, <<V120>>, <<V12>>, <<VALPHA>>, <<VALPHA1>>}

D1 == <<"2", "0", "2", "4", "-", "0", "3", "-", "0", "1">>
D2 == <<"2", "0", "2", "4", "-", "0", "3", "-", "0", "2">>
Dates == {D1, D2}

SeqsUpTo(S, n) == UNION {[1..k -> S] : k \in 0..n}

\* The text without the line terminator of its last line.
ChopLast(ls) ==
    IF ls # <<>> /\ ls[Len(ls)] # <<>> /\ ls[Len(ls)][Len(ls[Len(ls)])] = NL
    THEN [ls EXCEPT ![Len(ls)] = SubSeq(ls[Len(ls)], 1, Len(ls[Len(ls)]) - 1)]
    ELSE ls

Texts(LineSet, n) ==
    {Text(ls) : ls \in SeqsUpTo(LineSet, n)}
        \cup {Text(ChopLast(ls)) : ls \in SeqsUpTo(LineSet, n)}

pkgLine == <<"[", "p", "]", NL>>
depLine == <<"[", "d", ".", "a", "]", NL>>
titleLine == <<"#", " ", "L", "o", "g", NL>>

ChangelogLines ==
    {titleLine, changelogEntry(V120, D1), <<" ">> \o changelogEntry(V120, D1)}

Changelogs == Texts(ChangelogLines, MaxChangelogLines) \cup {Missing}

goodChangelog == Text(<<titleLine, changelogEntry(V120, D1)>>)

\* A key-value manifest of a package at version v.
TomlOf(v) == Text(<<pkgLine, versionLine(v)>>)

NAME == <<"n", "a", "m", "e">>
MAIN == <<"m", "a", "i", "n">>

\* A structured manifest of a package at version v, as json.dump lays it out.
JsonOf(v) == Json("indent2", <<<<NAME, <<"d", "c">>>>, <<VERSION, v>>>>)

\* What a primary manifest may hold.
PrimaryFiles == {TomlOf(V110), TomlOf(V100), Text(<<pkgLine>>), Missing}

\* What a manifest other than the default may hold.
TomlDeviants ==
    { Missing, Text(<<pkgLine>>), TomlOf(V100),
      Text(<<pkgLine, versionLine(V100), depLine, versionLine(V110)>>) }

JsonDeviants ==
    { Missing, Text(<<<<"{", NL>>>>), Json("indent2", <<<<NAME, <<"d", "c">>>>>>),
      Json("compact", <<<<VERSION, V100>>, <<NAME, <<"d", "c">>>>, <<MAIN, <<"x">>>>>>) }

Markers == {Missing, Text(<<D1>>), Text(<<D2 \o <<NL>>>>)}

NonPrimary == Manifests \ {CORE_TOML, FFI_TOML}

\* The non-primary manifests that differ from the default, at most
\* MaxDeviants of them, with what each holds.
Deviations ==
    UNION { {d \in [S -> TomlDeviants \cup JsonDeviants] :
                \A p \in S : d[p] \in (IF p \in TomlPaths THEN TomlDeviants ELSE JsonDeviants)}
            : S \in {T \in SUBSET NonPrimary : Cardinality(T) <= MaxDeviants} }

Tree(core, ffi, dev, changelog, marker) ==
    [p \in Paths |->
        IF p = CORE_TOML THEN core
        ELSE IF p = FFI_TOML THEN ffi
        ELSE IF p \in DOMAIN dev THEN dev[p]
        ELSE IF p \in TomlPaths THEN TomlOf(V110)
        ELSE IF p \in JsonPaths THEN JsonOf(V110)
        ELSE IF p = CHANGELOG THEN changelog
        ELSE marker]

\* Working directories that exercise the checks: any command line, any
\* primary manifests, any changelog.
CheckTrees ==
    {Tree(c, f, <<>>, cl, Text(<<D2>>)) : c \in PrimaryFiles, f \in PrimaryFiles, cl \in Changelogs}

\* Working directories that exercise the rewrite: agreeing primaries, a
\* changelog entry dated D1, any other manifests, any marker.
WriteTrees ==
    {Tree(TomlOf(V110), TomlOf(V110), d, goodChangelog, m) : d \in Deviations, m \in Markers}

Init ==
    /\ fs \in CheckTrees \cup WriteTrees
    /\ fs0 = fs
    /\ argv \in Args
    /\ clock \in Dates
    /\ newversion = <<>>
    /\ core_toml = <<>>
    /\ ffi_toml = <<>>
    /\ today = <<>>
    /\ idx = 1
    /\ pc = "parse"
    /\ err = "none"
    /\ io = <<>>
    /\ relpath = ""
    /\ json_data = <<>>
    /\ hist = <<>>
    /\ catalog = <<>>
    /\ now = 0
    /\ clear_index = FALSE
    /\ proj = 1

Spec == Init /\ [][Next]_vars

-----------------------------------------------------------------------------
(* Properties of a run *)

Ended == pc \in {"done", "failed"}

\* The run was given a new version.
HasArg == Len(argv) = 1

\* The version a primary manifest held before the run.
core0 == read_toml_version(fs0[CORE_TOML])
ffi0 == read_toml_version(fs0[FFI_TOML])

PrimariesDiffer == core0.err = "none" /\ ffi0.err = "none" /\ core0.v # ffi0.v
PrimariesAgree == core0.err = "none" /\ ffi0.err = "none" /\ core0.v = ffi0.v

\* No manifest and no release-date marker differs from what it held at the start.
ManifestsUntouched == \A p \in Manifests \cup {RELEASE_DATE} : fs[p] = fs0[p]

\* The places of an event in io.
At(e) == {i \in 1..Len(io) : io[i] = e}
Happened(e) == At(e) # {}
Written(p) == Happened(Ev("write", p, <<>>))

\* C1 as stated: whenever the two primary versions differ before the run, for
\* every new-version argument, the run fails with VersionMismatch and every
\* file holds its initial content.
C1_AnyArgument ==
    (HasArg /\ PrimariesDiffer /\ Ended) => (err = "VersionMismatch" /\ fs = fs0)

\* C1 amended: whenever the two primary versions differ before the run and the
\* new-version argument has at least two dots, every file holds its initial
\* content throughout the run, and the run ends failing with VersionMismatch.
C1_MismatchFails ==
    (HasArg /\ CountChar(argv[1], ".") >= 2 /\ PrimariesDiffer)
        => (fs = fs0 /\ (Ended => err = "VersionMismatch"))

C1_Witness ==
    HasArg /\ CountChar(argv[1], ".") >= 2 /\ PrimariesDiffer /\ err = "VersionMismatch"

\* C2: a run whose new version has fewer than two dots ends failing with
\* InvalidVersionFormat, never reads the changelog and never changes a file.
C2_FormatFails ==
    (HasArg /\ CountChar(argv[1], ".") < 2)
        => /\ fs = fs0
           /\ ~Happened(Ev("read", CHANGELOG, <<>>))
           /\ Ended => err = "InvalidVersionFormat"

C2_Witness ==
    HasArg /\ CountChar(argv[1], ".") < 2 /\ err = "InvalidVersionFormat" /\ ~PrimariesAgree

\* The text of a changelog entry as the claim writes it, and a line without
\* its terminator.
entryText(version, date) ==
    <<"#", "#", " ", "[">> \o version \o <<"]", " ", "-", " ">> \o date

Unterminated(line) ==
    IF line # <<>> /\ line[Len(line)] = NL THEN SubSeq(line, 1, Len(line) - 1) ELSE line

HasEntry(file, version, date) ==
    exists(file) /\ \E i \in 1..Len(file.lines) : Unterminated(file.lines[i]) = entryText(version, date)

\* C3: a run with a non-alpha version that passes the format and consistency
\* checks, started with a changelog document that has no line
\* "## [version] - today", modifies no manifest and no marker and ends failing
\* with MissingChangelogEntry.
C3_ChangelogFails ==
    (/\ HasArg /\ ~Contains(argv[1], ALPHA) /\ CountChar(argv[1], ".") >= 2
     /\ PrimariesAgree
     /\ exists(fs0[CHANGELOG])
     /\ ~HasEntry(fs0[CHANGELOG], argv[1], clock))
        => (ManifestsUntouched /\ (Ended => err = "MissingChangelogEntry"))

\* The run failed on a changelog whose entry for the version has another date.
C3_Witness ==
    /\ HasArg /\ PrimariesAgree /\ err = "MissingChangelogEntry"
    /\ ~HasEntry(fs0[CHANGELOG], argv[1], clock)
    /\ \E d \in Dates \ {clock} : HasEntry(fs0[CHANGELOG], argv[1], d)

\* What ManifestReader reports for a manifest now.
reads(p) == IF p \in TomlPaths THEN read_toml_version(fs[p]) ELSE read_json_version(fs[p])
reads0(p) == IF p \in TomlPaths THEN read_toml_version(fs0[p]) ELSE read_json_version(fs0[p])

MarkerHolds(date) == fs[RELEASE_DATE] = Text(<<date>>)

\* C4 as stated: after a successful run every configured manifest reads back
\* the new version and the marker holds exactly the date of the run.
C4_EveryManifest ==
    pc = "done"
        => /\ \A p \in Manifests : reads(p) = [err |-> "none", v |-> newversion]
           /\ MarkerHolds(clock)

\* C4 amended: after a successful run every structured-document manifest, and
\* every key-value manifest that had a line matching the version-key pattern
\* before the run, reads back the new version, and the marker holds exactly
\* the date of the run.
C4_VersionedManifests ==
    pc = "done"
        => /\ \A p \in Manifests :
                (p \in JsonPaths \/ reads0(p).err = "none")
                    => reads(p) = [err |-> "none", v |-> newversion]
           /\ MarkerHolds(clock)

\* A successful run over a non-primary manifest of another version than the
\* primaries and over a marker of another content.
C4_Witness ==
    /\ pc = "done"
    /\ \E p \in NonPrimary : reads0(p).err = "none" /\ reads0(p).v # core0.v
    /\ fs0[RELEASE_DATE] # Missing /\ fs0[RELEASE_DATE] # Text(<<clock>>)

\* The phases of the state machine of a run.
Phase ==
    CASE pc \in {"parse", "format", "core", "ffi", "same", "changelog"} -> "Start"
      [] pc \in {"toml", "json", "marker"} -> "Validated"
      [] pc \in {"cargo", "git"} -> "Written"
      [] pc = "guide" -> "Staged"
      [] pc = "done" -> "Done"
      [] OTHER -> "Failed"

PhaseOrder ==
    { <<"Start", "Validated">>, <<"Validated", "Written">>,
      <<"Written", "Staged">>, <<"Staged", "Done">> }

\* The three checks, decided on the inputs of the run.
ChecksPass ==
    /\ HasArg /\ CountChar(argv[1], ".") >= 2
    /\ PrimariesAgree
    /\ \/ Contains(argv[1], ALPHA)
       \/ exists(fs0[CHANGELOG]) /\ changelogFound(fs0[CHANGELOG], argv[1], clock)

\* Every event of the first set that happened, happened before every event of
\* the second.
Before(A, B) == \A i \in 1..Len(io), j \in 1..Len(io) : (io[i] \in A /\ io[j] \in B) => i < j

WriteEvents == {Ev("write", p, <<>>) : p \in Manifests \cup {RELEASE_DATE}}
CheckEvents == {Ev("read", p, <<>>) : p \in {CORE_TOML, FFI_TOML, CHANGELOG}}
CallEvents == {Ev("call", c, <<o>>) : c \in {"cargo check", "git add -u"}, o \in CallOutcomes}

\* C10: a manifest or the marker is written only in a run whose three checks
\* pass, and after they were made; the build check and the staging are invoked
\* only after every manifest and the marker were written; and a run changes
\* phase only along Start, Validated, Written, Staged, Done, or by failing.
C10_Order ==
    /\ [](/\ (fs # fs0 \/ \E e \in WriteEvents : Happened(e))
                => (ChecksPass /\ Phase # "Start" /\ Before(CheckEvents, WriteEvents))
          /\ (\E e \in CallEvents : Happened(e))
                => ((\A w \in WriteEvents : Happened(w)) /\ Before(WriteEvents, CallEvents))
          /\ Phase \in {"Written", "Staged", "Done"} => \A w \in WriteEvents : Happened(w))
    /\ [][Phase' # Phase => (<<Phase, Phase'>> \in PhaseOrder \/ Phase' = "Failed")]_vars

C10_Witness == pc = "done" /\ Happened(Ev("read", CHANGELOG, <<>>)) /\ fs # fs0

\* Every manifest can be rewritten: it exists, and a structured one parses.
Rewritable0 ==
    /\ \A p \in TomlPaths : exists(fs0[p])
    /\ \A p \in JsonPaths : exists(fs0[p]) /\ fs0[p].t = "json"

\* An external program could not be started.
CallRaised == \E c \in {"cargo check", "git add -u"} : Happened(Ev("call", c, <<"notfound">>))

AlphaRun ==
    /\ HasArg /\ Contains(argv[1], ALPHA) /\ CountChar(argv[1], ".") >= 2
    /\ PrimariesAgree

\* C11: a run with a version that contains "alpha", has at least two dots
\* and meets agreeing primaries never reads the changelog and never fails on
\* it, whatever the changelog holds and even when there is none; where every
\* manifest can be rewritten and the external programs can be started, the run
\* ends Done with every manifest rewritten and the marker holding the date.
C11_AlphaExempt ==
    AlphaRun
        => /\ ~Happened(Ev("read", CHANGELOG, <<>>))
           /\ err # "MissingChangelogEntry"
           /\ err = "FileNotFoundError" => CallRaised
           /\ (Ended /\ Rewritable0 /\ ~CallRaised)
                => /\ pc = "done"
                   /\ \A p \in Manifests : Written(p)
                   /\ \A p \in JsonPaths : reads(p) = [err |-> "none", v |-> argv[1]]
                   /\ MarkerHolds(clock)

\* An alpha run that ended Done although there is no changelog at all.
C11_Witness ==
    AlphaRun /\ pc = "done" /\ ~exists(fs0[CHANGELOG]) /\ fs # fs0

\* An external step failed: it returned a non-zero status, or its program
\* could not be started.
Failed(c) == \E o \in CallOutcomes \ {"zero"} : Happened(Ev("call", c, <<o>>))
Invoked(c) == \E o \in CallOutcomes : Happened(Ev("call", c, <<o>>))

\* C13 as stated: a failed build check or a failed staging step, by a
\* non-zero status or by a program that is not available, never aborts the
\* run: after a failed build check the staging is still invoked, after either
\* failure the guidance is printed and the run ends Done, and the manifests
\* and the marker keep what the run wrote.
C13_NeverAborts ==
    (Failed("cargo check") \/ Failed("git add -u"))
        => /\ \A p \in Manifests : Written(p)
           /\ MarkerHolds(clock)
           /\ Ended => /\ pc = "done"
                       /\ Invoked("git add -u")
                       /\ Happened(Ev("print", "guidance", newversion))

\* The configured manifests in the order of the listing, and the ones whose
\* version could not be read at the start.
Configured == toml_list \o json_list
Unreadable0 == {i \in 1..Len(Configured) : reads0(Configured[i]).err # "none"}

\* The version of a manifest was printed.
Reported(p) == Happened(Ev("print", p, reads0(p).v))

\* C14 as stated: a run without a new-version argument reports the current
\* version of every configured manifest, exits with a non-zero status, and
\* modifies no file; it never reaches validation or writing.
C14_ReportsAll ==
    (~HasArg /\ Ended)
        => /\ \A p \in Manifests : Reported(p)
           /\ pc = "failed"
           /\ fs = fs0

\* C14 amended: a run without a new-version argument modifies no file, makes
\* no check and no write, and exits with a non-zero status; it reports the
\* current version of the configured manifests in list order, all of them when
\* all can be read (ending with the usage error), and otherwise those before
\* the first manifest that cannot be read (ending with that manifest's error).
C14_ReportsReadable ==
    ~HasArg
        => /\ fs = fs0
           /\ pc \in {"parse", "failed"}
           /\ newversion = <<>>
           /\ \A i \in 1..Len(io) : io[i][1] = "print"
           /\ Ended =>
                LET stop == IF Unreadable0 = {} THEN Len(Configured) + 1
                            ELSE CHOOSE i \in Unreadable0 : \A j \in Unreadable0 : i <= j
                IN  /\ io = [i \in 1..(stop - 1) |->
                                Ev("print", Configured[i], reads0(Configured[i]).v)]
                    /\ err = IF Unreadable0 = {} THEN "Usage"
                             ELSE reads0(Configured[stop]).err

\* A run without argument that reported all ten manifests.
C14_Witness ==
    ~HasArg /\ err = "Usage" /\ \A p \in Manifests : Reported(p)

\* A run without argument that stopped at a manifest it could not read, after
\* it reported some.
C14_WitnessStopped ==
    ~HasArg /\ Ended /\ Unreadable0 # {} /\ io # <<>> /\ Len(io) < Len(Configured)

\* Both primary manifests could be read at the start.
PrimariesReadable == core0.err = "none" /\ ffi0.err = "none"

ReadCoreEv == Ev("read", CORE_TOML, <<>>)
ReadFfiEv == Ev("read", FFI_TOML, <<>>)
ReadChangelogEv == Ev("read", CHANGELOG, <<>>)

\* C17 as stated: the checks run in the order consistency, format,
\* changelog: a run over differing primaries ends with VersionMismatch
\* whatever else is wrong with its input, and a run that ends with
\* InvalidVersionFormat has read both primary manifests before.
C17_ConsistencyFirst ==
    (HasArg /\ PrimariesReadable /\ Ended)
        => /\ PrimariesDiffer => err = "VersionMismatch"
           /\ err = "InvalidVersionFormat" => (Happened(ReadCoreEv) /\ Happened(ReadFfiEv))

\* C17 amended: the checks run in the order format, consistency, changelog,
\* and the run ends with the error of the first check in that order that its
\* input violates: a version with fewer than two dots ends the run with
\* InvalidVersionFormat before any file is read; otherwise differing primaries
\* end it with VersionMismatch before the changelog is read; otherwise a
\* non-alpha version without its changelog line ends it with
\* MissingChangelogEntry; and none of the three errors occurs otherwise.
C17_FormatFirst ==
    (HasArg /\ exists(fs0[CHANGELOG]))
        => LET badFormat == CountChar(argv[1], ".") < 2
               noEntry == /\ ~Contains(argv[1], ALPHA)
                          /\ ~changelogFound(fs0[CHANGELOG], argv[1], clock)
               Reads == {ReadCoreEv, ReadFfiEv, ReadChangelogEv}
           IN  /\ Before({ReadCoreEv}, {ReadFfiEv})
               /\ Before({ReadCoreEv, ReadFfiEv}, {ReadChangelogEv})
               /\ badFormat => \A e \in Reads : ~Happened(e)
               /\ Happened(ReadChangelogEv) => PrimariesAgree
               /\ (Ended /\ PrimariesReadable) =>
                    IF badFormat THEN err = "InvalidVersionFormat"
                    ELSE IF PrimariesDiffer THEN err = "VersionMismatch"
                    ELSE IF noEntry THEN err = "MissingChangelogEntry"
                    ELSE err \notin {"InvalidVersionFormat", "VersionMismatch",
                                     "MissingChangelogEntry"}

\* A run whose input violates all three checks ended with the format error.
C17_Witness ==
    /\ HasArg /\ PrimariesDiffer /\ exists(fs0[CHANGELOG])
    /\ CountChar(argv[1], ".") < 2
    /\ ~HasEntry(fs0[CHANGELOG], argv[1], clock)
    /\ err = "InvalidVersionFormat"

\* C18 as stated: for a non-alpha version the changelog check passes exactly
\* when some line of the changelog, taken without its line terminator, equals
\* "## [version] - date", wherever the line stands, the last line of a
\* document without final terminator included.
C18_ExactLine ==
    (HasArg /\ ~Contains(argv[1], ALPHA) /\ Happened(ReadChangelogEv))
        => (err # "MissingChangelogEntry" <=> HasEntry(fs0[CHANGELOG], argv[1], clock))

\* The places, in the fixed order, of the manifests rewritten so far.
Rewritten == {i \in 1..Len(Configured) : Written(Configured[i])}

\* The rewritten manifests are a prefix of the fixed order: a manifest is
\* rewritten only after the one before it.
PrefixRewritten ==
    \A i \in 2..Len(Configured) : Written(Configured[i]) => Written(Configured[i - 1])

MarkerChanged == Written(RELEASE_DATE) \/ fs[RELEASE_DATE] # fs0[RELEASE_DATE]

C20_WitnessJson ==
    /\ pc = "failed"
    /\ \A p \in TomlPaths : Written(p)
    /\ \E p \in JsonPaths : ~Written(p)


-----------------------------------------------------------------------------
(* A writer called on its own: replace_toml_version and update_package_json, *)
(* statement by statement, on one manifest.                                  *)

MaxLines == 3
MaxCalls == 2
MaxReads == 1

PACKAGE_JSON == "package.json"

\* A temporary path that is the path itself.
tmp_path_Same(path) == path

\* Line 34: str(p) + "_tmp"
tmp_path(path) == IF path = CORE_TOML THEN "Cargo.toml_tmp" ELSE "package.json_tmp"

IsToml == relpath = CORE_TOML
IsJson == relpath = PACKAGE_JSON

\* The line of another key.
nameLine == <<"n", " ", "=", " ", QUOTE>> \o V100 \o <<QUOTE, NL>>

\* The lines a key-value manifest is made of: a section header, a version
\* line, a version line followed by a comment, an indented version line, the
\* line of another key.
WriterLines ==
    { pkgLine, versionLine(V110),
      rexPrefix \o V100 \o <<QUOTE, " ", "#", NL>>,
      <<" ">> \o versionLine(V110),
      nameLine }

\* The members a structured manifest is made of.
WriterMembers ==
    { <<NAME, <<"d", "c">>>>, <<VERSION, V110>>, <<VERSION, V100>>, <<MAIN, <<"x">>>> }

TomlInputs == Texts(WriterLines, MaxLines) \cup {Missing}

JsonInputs ==
    {Json(l, ms) : l \in {"indent2", "compact"}, ms \in SeqsUpTo(WriterMembers, MaxLines)}
        \cup {Missing, Text(<<<<"{", NL>>>>)}

WriterVersions == {V110, V120}

mainOnly == <<argv, clock, core_toml, ffi_toml, today, io, devpi>>

WInit ==
    /\ \/ relpath = CORE_TOML /\ \E f \in TomlInputs :
             fs = [p \in {CORE_TOML, tmp_path(CORE_TOML)} |-> IF p = CORE_TOML THEN f ELSE Missing]
       \/ relpath = PACKAGE_JSON /\ \E f \in JsonInputs :
             fs = [p \in {PACKAGE_JSON, tmp_path(PACKAGE_JSON)} |-> IF p = PACKAGE_JSON THEN f ELSE Missing]
    /\ fs0 = fs
    /\ argv = <<>>
    /\ clock = <<>>
    /\ newversion = <<>>
    /\ core_toml = <<>>
    /\ ffi_toml = <<>>
    /\ today = <<>>
    /\ idx = 1
    /\ pc = "idle"
    /\ err = "none"
    /\ io = <<>>
    /\ json_data = <<>>
    /\ hist = <<>>
    /\ catalog = <<>>
    /\ now = 0
    /\ clear_index = FALSE
    /\ proj = 1

Return == pc' = "idle" /\ hist' = Append(hist, [v |-> newversion, file |-> fs'[relpath]])

\* A writer that opens the temporary file before it asserts that the
\* manifest exists.
TomlOpen_OpenFirst ==
    /\ pc = "idle" /\ IsToml /\ Len(hist) < MaxCalls
    /\ \E v \in WriterVersions : newversion' = v
    /\ fs' = [fs EXCEPT ![tmp_path(relpath)] = Text(<<>>)]
    /\ IF ~exists(fs[relpath])
       THEN Fail("ManifestNotFound") /\ idx' = idx
       ELSE /\ idx' = 1
            /\ pc' = "copy" /\ err' = err
    /\ UNCHANGED <<fs0, relpath, json_data, hist, mainOnly>>

\* Lines 24-28 with 15-21: read_toml_version called on the manifest between
\* two calls of the writer.
TomlRead ==
    /\ pc = "idle" /\ IsToml /\ Len(io) < MaxReads
    /\ LET r == read_toml_version(fs[relpath])
       IN  /\ io' = Append(io, Ev("read", relpath, r.v))
           /\ IF r.err # "none"
              THEN Fail(r.err) /\ core_toml' = core_toml
              ELSE core_toml' = r.v /\ UNCHANGED <<pc, err>>
    /\ UNCHANGED <<fs, fs0, relpath, json_data, hist, newversion, idx,
                   argv, clock, ffi_toml, today, devpi>>

\* Lines 31-35: the call, the assertion, and the temporary file opened for
\* writing.
TomlOpen ==
    /\ pc = "idle" /\ IsToml /\ Len(hist) < MaxCalls
    /\ \E v \in WriterVersions : newversion' = v
    /\ IF ~exists(fs[relpath])
       THEN Fail("ManifestNotFound") /\ UNCHANGED <<fs, idx>>
       ELSE /\ fs' = [fs EXCEPT ![tmp_path(relpath)] = Text(<<>>)]
            /\ idx' = 1
            /\ pc' = "copy" /\ err' = err
    /\ UNCHANGED <<fs0, relpath, json_data, hist, mainOnly>>

\* Lines 36-42: one line read from the manifest and written to the temporary
\* file.
TomlLine ==
    /\ pc = "copy"
    /\ idx <= Len(fs[relpath].lines)
    /\ fs' = [fs EXCEPT ![tmp_path(relpath)] =
                Text(Append(fs[tmp_path(relpath)].lines,
                            tomlOutLine(fs[relpath].lines[idx], newversion)))]
    /\ idx' = idx + 1
    /\ UNCHANGED <<fs0, relpath, json_data, hist, mainOnly, newversion, pc, err>>

\* Line 43, after the last line: os.rename(tmp_path, str(p)).
TomlRename ==
    /\ pc = "copy"
    /\ idx > Len(fs[relpath].lines)
    /\ fs' = [p \in DOMAIN fs |->
                IF p = relpath THEN fs[tmp_path(relpath)]
                ELSE IF p = tmp_path(relpath) THEN Missing
                ELSE fs[p]]
    /\ Return
    /\ UNCHANGED <<fs0, relpath, json_data, mainOnly, newversion, idx, err>>

\* Lines 54-59: the call, the assertion, the document parsed and its version
\* set.
JsonLoad ==
    /\ pc = "idle" /\ IsJson /\ Len(hist) < MaxCalls
    /\ \E v \in WriterVersions :
          /\ newversion' = v
          /\ IF ~exists(fs[relpath])
             THEN Fail("ManifestNotFound") /\ json_data' = json_data
             ELSE IF fs[relpath].t # "json"
             THEN Fail("MalformedManifest") /\ json_data' = json_data
             ELSE /\ json_data' = setVersion(loads(fs[relpath].members), v)
                  /\ pc' = "open" /\ err' = err
    /\ UNCHANGED <<fs, fs0, relpath, hist, mainOnly, idx>>

\* Line 60: open(p, "w") truncates the manifest.
JsonOpen ==
    /\ pc = "open"
    /\ fs' = [fs EXCEPT ![relpath] = Text(<<>>)]
    /\ pc' = "dump"
    /\ UNCHANGED <<fs0, relpath, json_data, hist, mainOnly, newversion, idx, err>>

\* Lines 61-62 and the end of the with block: the document and the newline
\* reach the file.
JsonDump ==
    /\ pc = "dump"
    /\ fs' = [fs EXCEPT ![relpath] = dump(json_data)]
    /\ Return
    /\ UNCHANGED <<fs0, relpath, json_data, mainOnly, newversion, idx, err>>

WNext ==
    \/ TomlOpen \/ TomlLine \/ TomlRename \/ JsonLoad \/ JsonOpen \/ JsonDump
    \/ TomlRead

WSpec == WInit /\ [][WNext]_vars

-----------------------------------------------------------------------------
(* Properties of a writer *)

\* The complete content the manifest held before the call in progress.
Latest == IF hist = <<>> THEN fs0[relpath] ELSE hist[Len(hist)].file

\* The content before call k.
Prior(k) == IF k = 1 THEN fs0[relpath] ELSE hist[k - 1].file

\* The statement-by-statement writers end with the file that
\* replace_toml_version and update_package_json, used by main, compute.
WriterStepsAgree ==
    \A k \in 1..Len(hist) :
        hist[k].file = IF IsToml THEN Text(replace_toml_version(Prior(k).lines, hist[k].v))
                       ELSE update_package_json(Prior(k), hist[k].v)

\* C5 as stated: the key-value writer leaves every line as it was, except the
\* first line matching the version-key pattern, which becomes the version line
\* of the new version; a later matching line is copied verbatim.  Lines are
\* compared without their terminators.
C5_FirstMatchOnly ==
    (IsToml /\ Len(hist) >= 1)
        => LET in == fs0[relpath].lines
               out == hist[1].file.lines
           IN  /\ Len(out) = Len(in)
               /\ \A i \in 1..Len(in) :
                      Unterminated(out[i]) =
                          Unterminated(IF i = regex_matches(in)
                                       THEN versionLine(hist[1].v) ELSE in[i])

Sorted(ms) == \A i \in 1..Len(ms), j \in 1..Len(ms) : i < j => StrLess(ms[i][1], ms[j][1])

\* C6 as stated: the structured-document writer gives a document with the
\* fields of the parsed input, same values, same order, except the value of
\* the version field.
C6_SameOrder ==
    (IsJson /\ Len(hist) >= 1)
        => LET in == loads(fs0[relpath].members)
               out == hist[1].file
           IN  /\ out.t = "json"
               /\ Len(out.members) = Len(in)
               /\ \A i \in 1..Len(in) :
                      out.members[i] =
                          IF in[i][1] = VERSION THEN <<VERSION, hist[1].v>> ELSE in[i]

\* C6 amended: the output document has the fields of the parsed input, and the
\* version field when the input has none; every field but version has the
\* value it had, version has the new version; the fields stand in increasing
\* key order.
C6_SortedFields ==
    (IsJson /\ Len(hist) >= 1)
        => LET in == loads(fs0[relpath].members)
               out == hist[1].file
           IN  /\ out.t = "json"
               /\ Keys(out.members) = Keys(in) \cup {VERSION}
               /\ Len(out.members) = Cardinality(Keys(out.members))
               /\ \A k \in Keys(in) \ {VERSION} : Lookup(out.members, k) = Lookup(in, k)
               /\ Lookup(out.members, VERSION) = hist[1].v
               /\ Sorted(out.members)

\* A document with a version field whose fields were not in key order was
\* rewritten.
C6_Witness ==
    /\ IsJson /\ Len(hist) >= 1
    /\ VERSION \in Keys(fs0[relpath].members)
    /\ ~Sorted(loads(fs0[relpath].members))
    /\ Cardinality(Keys(fs0[relpath].members)) >= 3

\* C7: a call of a writer with the version of the call before it leaves the
\* file as that call left it.
C7_Idempotent ==
    \A k \in 1..Len(hist) :
        (k > 1 /\ hist[k].v = hist[k - 1].v) => hist[k].file = hist[k - 1].file

\* Two calls with one version, the first of which changed the file.
C7_Witness ==
    /\ Len(hist) >= 2 /\ hist[1].v = hist[2].v
    /\ hist[1].file # fs0[relpath]
    /\ IsToml /\ regex_matches(fs0[relpath].lines) # 0

\* C8: while the key-value writer runs, the manifest's path holds the complete
\* content it held before the call; the only change it ever makes to that
\* content is to replace it, in one step, by the complete rewritten content.
C8_AtomicSwap ==
    /\ [](IsToml => fs[relpath] = Latest)
    /\ [][IsToml =>
            \/ fs'[relpath] = fs[relpath]
            \/ /\ pc = "copy"
               /\ fs'[relpath] = Text(replace_toml_version(fs[relpath].lines, newversion))]_vars

\* The temporary file is partly written, the manifest still holds its
\* original content, and the rewrite will change it.
C8_Witness ==
    /\ IsToml /\ pc = "copy"
    /\ 1 < idx /\ idx <= Len(fs[relpath].lines)
    /\ Len(fs[tmp_path(relpath)].lines) = idx - 1
    /\ fs[relpath] = fs0[relpath]
    /\ Text(replace_toml_version(fs[relpath].lines, newversion)) # fs[relpath]

\* C9 as stated: while the structured-document writer runs, the manifest's
\* path holds either the complete document it held before the call or the
\* complete new document.
C9_AtomicJson ==
    (IsJson /\ fs0[relpath].t = "json") => fs[relpath] = Latest

\* C12: a writer called on a path where no file exists fails with
\* ManifestNotFound before it writes: the manifest is not created, its
\* temporary sibling is not created, and no file is modified; for the
\* key-value writer and for the structured-document writer.
C12_MissingManifest ==
    ~exists(fs0[relpath])
        => /\ fs = fs0
           /\ ~exists(fs[tmp_path(relpath)])
           /\ hist = <<>>
           /\ pc \in {"idle", "failed"}
           /\ pc = "failed" => err = "ManifestNotFound"

\* The key-value writer was called on a missing manifest and failed.
C12_Witness ==
    IsToml /\ ~exists(fs0[relpath]) /\ pc = "failed" /\ err = "ManifestNotFound"

\* The structured-document writer was called on a missing manifest and failed.
C12_WitnessJson ==
    IsJson /\ ~exists(fs0[relpath]) /\ pc = "failed" /\ err = "ManifestNotFound"

\* C19: the reader, called on a key-value manifest, returns the value of the
\* first line that matches the version-key pattern at its start, whatever
\* later matching lines and lines of other keys hold; fails with
\* VersionNotFound when no line matches; and changes no file.
C19_FirstMatch ==
    [][io' # io =>
         /\ fs' = fs
         /\ exists(fs[relpath]) =>
              LET lines == fs[relpath].lines
                  M == {i \in 1..Len(lines) : rexMatch(lines[i])}
              IN  IF M = {}
                  THEN pc' = "failed" /\ err' = "VersionNotFound"
                  ELSE /\ \E k \in M : /\ \A j \in M : k <= j
                                       /\ core_toml' = rexGroup(lines[k])
                       /\ pc' = "idle" /\ err' = "none"]_vars

\* The reader returned the version of the first matching line of a manifest
\* that has a later matching line with another version, and a line of another
\* key before both.
C19_Witness ==
    /\ IsToml /\ pc = "idle" /\ hist = <<>> /\ io # <<>>
    /\ LET lines == fs0[relpath].lines
       IN  /\ Len(lines) = 3
           /\ lines[1] = nameLine
           /\ rexMatch(lines[2]) /\ core_toml = rexGroup(lines[2])
           /\ rexMatch(lines[3]) /\ core_toml # rexGroup(lines[3])

\* The reader failed on a manifest that has the line of another key and an
\* indented version line only.
C19_WitnessNotFound ==
    /\ IsToml /\ err = "VersionNotFound"
    /\ fs0[relpath].lines = <<nameLine, <<" ">> \o versionLine(V110)>>

-----------------------------------------------------------------------------
(* cleanup_devpi_indices.py: run(), one action per statement group.  Time is *)
(* counted in days; a release date is the day of a "when" entry.             *)

\* Line 11.
MAXDAYS == 7

MASTER == "master"

\* Lines 17-21: the names of the indexes of the user, in the order served.
get_indexes == [i \in 1..Len(catalog) |-> catalog[i].name]

\* Lines 24-28: the projects of an index, each given by its release dates.
get_projectnames(i) == catalog[i].projects

\* Lines 31-42: the set of the dates of the release logs of a project.
get_release_dates(i, j) == catalog[i].projects[j]

\* Line 62: max(dates)
max(dates) == CHOOSE d \in dates : \A e \in dates : e <= d

\* A guard that lets the index named master through.
skipped_EmptyOnly(indexname) == indexname = ""

\* Line 50.
skipped(indexname) == indexname = MASTER \/ indexname = ""

\* A retention window that ends on the seventh day.
tooOld_AtLeast(date) == (now - date) >= MAXDAYS

\* Line 63.
tooOld(date) == (now - date) > MAXDAYS

\* Lines 19, 26, 33: the status of a response.
HttpStatus == {200, 404}

\* What no step of the cleanup job changes.
cleanupEnv ==
    <<fs, fs0, argv, clock, newversion, core_toml, ffi_toml, today,
      relpath, json_data, hist, catalog, now>>

\* Line 48: get_indexes.
GetIndexes ==
    /\ pc = "indexes"
    /\ \E status \in HttpStatus :
          IF status # 200
          THEN Fail("AssertionError") /\ idx' = idx
          ELSE pc' = "index" /\ idx' = 1 /\ err' = err
    /\ UNCHANGED <<cleanupEnv, clear_index, proj, io>>

\* Lines 48-52: the next index, its projects, the guard and clear_index; the
\* end of the loop ends the job.
NextIndex ==
    /\ pc = "index"
    /\ IF idx > Len(get_indexes)
       THEN pc' = "done" /\ UNCHANGED <<idx, err, clear_index, proj>>
       ELSE \E status \in HttpStatus :
               IF status # 200
               THEN Fail("AssertionError") /\ UNCHANGED <<idx, clear_index, proj>>
               ELSE IF skipped(get_indexes[idx])
               THEN idx' = idx + 1 /\ UNCHANGED <<pc, err, clear_index, proj>>
               ELSE /\ clear_index' = (get_projectnames(idx) = <<>>)
                    /\ proj' = 1
                    /\ pc' = "project"
                    /\ UNCHANGED <<idx, err>>
    /\ UNCHANGED <<cleanupEnv, io>>

\* Lines 53-66: one iteration of the loop over the projects; the end of the
\* loop, or the break, leads to line 67.
CheckProject ==
    /\ pc = "project"
    /\ IF proj > Len(get_projectnames(idx))
       THEN pc' = "delete" /\ UNCHANGED <<err, clear_index, proj, io>>
       ELSE \E status \in HttpStatus :
               IF status # 200
               THEN Fail("AssertionError") /\ UNCHANGED <<clear_index, proj, io>>
               ELSE LET dates == get_release_dates(idx, proj)
                        date == IF dates = {} THEN now ELSE max(dates)
                    IN  /\ io' = IF dates = {}
                                 THEN Append(io, Ev("print", get_indexes[idx],
                                                    <<"has no releases">>))
                                 ELSE io
                        /\ IF tooOld(date)
                           THEN clear_index' = TRUE /\ pc' = "delete" /\ proj' = proj
                           ELSE proj' = proj + 1 /\ UNCHANGED <<clear_index, pc>>
                        /\ err' = err
    /\ UNCHANGED <<cleanupEnv, idx>>

\* Lines 67-69: subprocess.check_call raises when devpi returns a non-zero
\* status or cannot be started.
DeleteIndex ==
    /\ pc = "delete"
    /\ IF clear_index
       THEN \E o \in CallOutcomes :
               /\ io' = Append(io, Ev("delete", get_indexes[idx], <<o>>))
               /\ IF o = "zero"
                  THEN pc' = "index" /\ idx' = idx + 1 /\ err' = err
                  ELSE /\ Fail(IF o = "nonzero" THEN "CalledProcessError"
                               ELSE "FileNotFoundError")
                       /\ idx' = idx
       ELSE pc' = "index" /\ idx' = idx + 1 /\ UNCHANGED <<err, io>>
    /\ UNCHANGED <<cleanupEnv, clear_index, proj>>

CleanupNext == GetIndexes \/ NextIndex \/ CheckProject \/ DeleteIndex

\* The catalogs of the model.  Days 2, 3 and 9 are 8, 7 and 1 days before
\* day 10.
MaxProjects == 2

DateSets == {{}, {2}, {9}, {2, 9}, {3}}
Nows == {10, 11}

ProjectLists == SeqsUpTo(DateSets, MaxProjects)
FewProjects == {<<>>, <<{2}>>, <<{9}>>}
DEV == "dev"

IndexOrders ==
    { <<>>, <<DEV>>, <<MASTER, DEV>>, <<DEV, MASTER>>, <<"", DEV>>, <<DEV, "", MASTER>> }

ListsFor(n) == IF n = DEV THEN ProjectLists ELSE FewProjects
IndexOf(n, ps) == [name |-> n, projects |-> ps]

CatalogsOf(o) ==
    CASE Len(o) = 0 -> {<<>>}
      [] Len(o) = 1 -> {<<IndexOf(o[1], a)>> : a \in ListsFor(o[1])}
      [] Len(o) = 2 -> {<<IndexOf(o[1], a), IndexOf(o[2], b)>> :
                            a \in ListsFor(o[1]), b \in ListsFor(o[2])}
      [] OTHER -> {<<IndexOf(o[1], a), IndexOf(o[2], b), IndexOf(o[3], c)>> :
                            a \in ListsFor(o[1]), b \in ListsFor(o[2]), c \in ListsFor(o[3])}

Catalogs == UNION {CatalogsOf(o) : o \in IndexOrders}

CleanupInit ==
    /\ catalog \in Catalogs
    /\ now \in Nows
    /\ clear_index = FALSE
    /\ proj = 1
    /\ idx = 1
    /\ pc = "indexes"
    /\ err = "none"
    /\ io = <<>>
    /\ fs = <<>>
    /\ fs0 = fs
    /\ argv = <<>>
    /\ clock = <<>>
    /\ newversion = <<>>
    /\ core_toml = <<>>
    /\ ffi_toml = <<>>
    /\ today = <<>>
    /\ relpath = ""
    /\ json_data = <<>>
    /\ hist = <<>>

CleanupSpec == CleanupInit /\ [][CleanupNext]_vars

-----------------------------------------------------------------------------
(* Properties of the cleanup job *)

\* A delete command was issued for the index.
Issued(n) == \E o \in CallOutcomes : Happened(Ev("delete", n, <<o>>))

\* All release dates of an index, over all of its projects.
AllDates(i) == UNION Range(catalog[i].projects)

\* Every date of the set is more than MAXDAYS before now.
Stale(dates) == \A d \in dates : now - d > MAXDAYS

\* C15 as stated: a delete command is issued for a listed index only if it
\* is not master and either has no release at all or has its most recent
\* release, over all of its projects, more than 7 days before now; and a job
\* that completes has issued one for every such index.
C15_NewestOverall ==
    \A i \in 1..Len(catalog) :
        LET due == catalog[i].name # MASTER /\ Stale(AllDates(i))
        IN  /\ Issued(catalog[i].name) => due
            /\ (pc = "done" /\ due) => Issued(catalog[i].name)

\* The index has no project, or a project with releases of which the most
\* recent is more than 7 days before now.
Due(i) ==
    /\ catalog[i].name \notin {MASTER, ""}
    /\ \/ catalog[i].projects = <<>>
       \/ \E j \in 1..Len(catalog[i].projects) :
             catalog[i].projects[j] # {} /\ Stale(catalog[i].projects[j])

\* C15 amended: a delete command is issued for a listed index only if its
\* name is neither master nor empty and it either has no project or has a
\* project with releases whose most recent release is more than 7 days before
\* now; a job that completes has issued one for every such index; no index
\* gets two.
C15_AnyProject ==
    \A i \in 1..Len(catalog) :
        /\ Issued(catalog[i].name) => Due(i)
        /\ (pc = "done" /\ Due(i)) => Issued(catalog[i].name)
        /\ \A k \in 1..Len(io), l \in 1..Len(io) :
              (io[k][1] = "delete" /\ io[l][1] = "delete" /\ io[k][2] = io[l][2]) => k = l

\* A completed job deleted an index that has a release of the day before.
C15_Witness ==
    /\ pc = "done"
    /\ \E i \in 1..Len(catalog) :
          Issued(catalog[i].name) /\ \E d \in AllDates(i) : now - d = 1

\* A completed job kept an index that has a release exactly 7 days old.
C15_WitnessEdge ==
    /\ pc = "done"
    /\ \E i \in 1..Len(catalog) :
          /\ catalog[i].name = DEV /\ ~Issued(DEV)
          /\ \E d \in AllDates(i) : now - d = MAXDAYS

\* C16: no delete command is ever issued for the index named master,
\* whatever the catalog holds.
C16_MasterStays ==
    \A k \in 1..Len(io) : io[k][1] = "delete" => io[k][2] # MASTER

\* A completed job that met a master index without projects and deleted
\* another index.
C16_Witness ==
    /\ pc = "done"
    /\ Issued(DEV)
    /\ \E i \in 1..Len(catalog) :
          catalog[i].name = MASTER /\ catalog[i].projects = <<>>

\* A completed job that met a master index whose only release is 8 days old.
C16_WitnessStale ==
    /\ pc = "done"
    /\ \E i \in 1..Len(catalog) :
          catalog[i].name = MASTER /\ catalog[i].projects = <<{2}>>

====
